---------------------------- MODULE Spec2Model ----------------------------
(***************************************************************************)
(* Universe constraint environment (src/src/kernel/environment.cpp) and    *)
(* substitution engine with its universe-parameter cache                   *)
(* (src/src/library/compiler/lambda_lifting.h).                            *)
(***************************************************************************)
EXTENDS Integers, Sequences, FiniteSets, TLC

(***************************************************************************)
(* Machine integers.  int and unsigned are modelled with IntBits bits, so  *)
(* that the checked arithmetic reaches its limits inside the model.        *)
(***************************************************************************)
IntBits == 4

IntMax == 2 ^ (IntBits - 1) - 1

IntMin == 0 - 2 ^ (IntBits - 1)

UIntMax == 2 ^ IntBits - 1

\* constexpr unsigned uninit = std::numeric_limits<int>::max();
uninit == IntMax

\* The most universe variables an environment holds in the model (u0 included).
MaxVars == 3

\* The same, where the level of the last define_uvar is recorded (SpecDef).
MaxDefVars == 4

\* The most direct add_constraint calls of one behaviour of SpecDirect.
MaxDirectCalls == 2

(***************************************************************************)
(* Results of operations that may throw exception("universe overflow").    *)
(***************************************************************************)
Value(v) == [exc |-> FALSE, val |-> v]

Throw == [exc |-> TRUE, val |-> 0]

\* A subtraction that wraps around in the int type instead of failing.
sub_wraps(v, k) == Value(((v - k - IntMin) % (IntMax - IntMin + 1)) + IntMin)

\* static int sub(int v, unsigned k)
sub(v, k) ==
    LET r == v - k
    IN  IF r < IntMin THEN Throw ELSE Value(r)

\* static int add(int v, unsigned k)
add_int(v, k) ==
    LET r == v + k
    IN  IF r > IntMax - 1 THEN Throw ELSE Value(r)

\* A checked addition whose limit is INT_MAX, the sentinel, itself.
add_up_to_sentinel(v, k) ==
    LET r == v + k
    IN  IF r > IntMax THEN Throw ELSE Value(r)

\* static unsigned add(unsigned v, unsigned k)
add(v, k) ==
    LET r == v + k
    IN  IF r > IntMax - 1 THEN Throw ELSE Value(r)

(***************************************************************************)
(* Levels: universe variable, lift by a constant, max of a list.           *)
(***************************************************************************)
UVar(i) == [kind |-> "UVar", idx |-> i]

Lift(l, o) == [kind |-> "Lift", of |-> l, offset |-> o]

Max(ls) == [kind |-> "Max", levels |-> ls]

\* Number of elements of a vector (a function on 0 .. n-1).
size(vec) == Cardinality(DOMAIN vec)

push_back(vec, x) == [i \in 0 .. size(vec) |-> IF i = size(vec) THEN x ELSE vec[i]]

\* Name of the default-constructed level() that init_uvars declares as variable 0.
BaseName == "bot"

\* Names a caller may give to new universe variables, in the order they are used.
FreshNames == <<"u1", "u2", "u3", "u4", "u5", "u6">>

VARIABLES
    m_uvars,            \* std::vector<level>: the names, indexed by uvar index
    m_uvar_distances,   \* std::vector<std::vector<unsigned>>
    call,               \* the last call made on the environment
    outcome,            \* how it ended: "ok", "overflow" or "declared"
    all_succeeded,      \* no call has thrown so far
    assert_failed,      \* some lean_assert of add_constraint did not hold
    ncalls,             \* number of direct add_constraint calls made
    scenario1,          \* progress through concrete scenario 1, or -1
    defn                \* the level passed to the last define_uvar (SpecDef only)

envvars == <<m_uvars, m_uvar_distances, call, outcome, all_succeeded,
             assert_failed, ncalls, scenario1, defn>>

VARIABLES
    op,                 \* the substitution function applied, "none" before
    term_in,            \* its term argument
    start_in,           \* its start s
    subst_in,           \* its substitution array
    result,             \* the term it returned
    depth               \* nested calls of head_beta_reduce, modulo DepthMod

substvars == <<op, term_in, start_in, subst_in, result, depth>>

VARIABLES
    type_cache,         \* get_type_univ_cache() of each execution context
    value_cache,        \* get_value_univ_cache() of each execution context
    cache_call,         \* the last call of the cached substitution
    ret                 \* the term the last instantiate_*_lparams returned

cachevars == <<type_cache, value_cache, cache_call, ret>>

vars == <<envvars, substvars, cachevars>>

(***************************************************************************)
(* bool is_ge(level const & l1, level const & l2, int k)                   *)
(* std::any_of / std::all_of visit the members in order and stop at the    *)
(* first deciding member; an exception of a visited member propagates.     *)
(***************************************************************************)
\* (The members' results are passed as arguments, which are evaluated once.)
RECURSIVE is_ge_in(_, _, _, _)
RECURSIVE any_ge(_, _, _, _, _)
RECURSIVE all_ge(_, _, _, _, _)
RECURSIVE any_ge_from(_, _, _, _, _, _)
RECURSIVE all_ge_from(_, _, _, _, _, _)

is_ge_in(dist, l1, l2, k) ==
    CASE l2.kind = "UVar" ->
            (CASE l1.kind = "UVar" ->
                    LET d == dist[l1.idx][l2.idx]
                    IN  Value(d # uninit /\ (k < 0 \/ (k >= 0 /\ d >= k)))
               [] l1.kind = "Lift" ->
                    IF sub(k, l1.offset).exc THEN Throw
                    ELSE is_ge_in(dist, l1.of, l2, sub(k, l1.offset).val)
               [] l1.kind = "Max" -> any_ge(dist, l1.levels, 1, l2, k))
      [] l2.kind = "Lift" ->
            IF add_int(k, l2.offset).exc THEN Throw
            ELSE is_ge_in(dist, l1, l2.of, add_int(k, l2.offset).val)
      [] l2.kind = "Max" -> all_ge(dist, l1, l2.levels, 1, k)

any_ge(dist, ls, i, l2, k) ==
    IF i > Len(ls) THEN Value(FALSE)
    ELSE any_ge_from(is_ge_in(dist, ls[i], l2, k), dist, ls, i, l2, k)

any_ge_from(r, dist, ls, i, l2, k) ==
    IF r.exc THEN Throw
    ELSE IF r.val THEN Value(TRUE)
    ELSE any_ge(dist, ls, i + 1, l2, k)

\* An all_of that lets its first member decide.
all_ge_first_only(dist, l1, ls, i, k) ==
    IF i > Len(ls) THEN Value(TRUE) ELSE is_ge_in(dist, l1, ls[i], k)

all_ge(dist, l1, ls, i, k) ==
    IF i > Len(ls) THEN Value(TRUE)
    ELSE all_ge_from(is_ge_in(dist, l1, ls[i], k), dist, l1, ls, i, k)

\* An all_of that stops with true at the first member that holds.
all_ge_from_any(r, dist, l1, ls, i, k) ==
    IF r.exc THEN Throw
    ELSE IF r.val THEN Value(TRUE)
    ELSE all_ge(dist, l1, ls, i + 1, k)

all_ge_from(r, dist, l1, ls, i, k) ==
    IF r.exc THEN Throw
    ELSE IF ~r.val THEN Value(FALSE)
    ELSE all_ge(dist, l1, ls, i + 1, k)

is_ge(l1, l2, k) == is_ge_in(m_uvar_distances, l1, l2, k)

(***************************************************************************)
(* level add_var(name const & n)                                           *)
(***************************************************************************)
declared(uvars, n) == \E i \in DOMAIN uvars : uvars[i] = n

\* add_var whose duplicate check looks at the user's variables only.
add_var_skips_base(uvars, dist, n) ==
    IF \E i \in DOMAIN uvars : i # 0 /\ uvars[i] = n
    THEN [exc |-> TRUE, uvars |-> uvars, dist |-> dist, idx |-> 0]
    ELSE LET idx == size(uvars)
         IN  [exc   |-> FALSE,
              uvars |-> push_back(uvars, n),
              dist  |-> [i \in 0 .. idx |->
                            [j \in 0 .. idx |->
                                IF i = idx /\ j = idx THEN 0
                                ELSE IF i = idx \/ j = idx THEN uninit
                                ELSE dist[i][j]]],
              idx   |-> idx]

\* add_var that grows the old rows with 0 instead of uninit.
add_var_known_column(uvars, dist, n) ==
    IF declared(uvars, n)
    THEN [exc |-> TRUE, uvars |-> uvars, dist |-> dist, idx |-> 0]
    ELSE [exc   |-> FALSE,
          uvars |-> push_back(uvars, n),
          dist  |-> [i \in 0 .. size(uvars) |->
                        [j \in 0 .. size(uvars) |->
                            IF j = size(uvars) THEN 0
                            ELSE IF i = size(uvars) THEN uninit
                            ELSE dist[i][j]]],
          idx   |-> size(uvars)]

add_var(uvars, dist, n) ==
    IF declared(uvars, n)
    THEN [exc |-> TRUE, uvars |-> uvars, dist |-> dist, idx |-> 0]
    ELSE LET idx == size(uvars)
         IN  [exc   |-> FALSE,
              uvars |-> push_back(uvars, n),
              dist  |-> [i \in 0 .. idx |->
                            [j \in 0 .. idx |->
                                IF i = idx /\ j = idx THEN 0
                                ELSE IF i = idx \/ j = idx THEN uninit
                                ELSE dist[i][j]]],
              idx   |-> idx]

(***************************************************************************)
(* void add_constraint(uvar v1, uvar v2, unsigned d)                       *)
(* A run is [dist, exc, bad]: the matrix left behind, whether add threw,   *)
(* and whether a lean_assert did not hold (asserts compile to nothing in   *)
(* a release build, so the run goes on).                                   *)
(***************************************************************************)
RECURSIVE update_forward(_, _, _, _, _, _)

update_forward(dist, v1, v2, d, v3, bad) ==
    IF v3 >= size(dist) THEN [dist |-> dist, exc |-> FALSE, bad |-> bad]
    ELSE IF dist[v2][v3] # uninit
         THEN LET bad1 == bad \/ v1 = v3
                  d_v1_v3 == add(d, dist[v2][v3])
              IN  IF d_v1_v3.exc
                  THEN [dist |-> dist, exc |-> TRUE, bad |-> bad1]
                  ELSE IF dist[v1][v3] = uninit \/ d_v1_v3.val >= dist[v1][v3]
                       THEN update_forward([dist EXCEPT ![v1][v3] = d_v1_v3.val],
                                           v1, v2, d, v3 + 1, bad1)
                       ELSE update_forward(dist, v1, v2, d, v3 + 1, bad1)
         ELSE update_forward(dist, v1, v2, d, v3 + 1, bad)

\* add_constraint that records the edge and does not update forward.
add_constraint_edge_only(dist, v1, v2, d) ==
    IF dist[v1][v2] = uninit \/ d >= dist[v1][v2]
    THEN [dist |-> [dist EXCEPT ![v1][v2] = d], exc |-> add(d, 0).exc, bad |-> v1 = v2]
    ELSE [dist |-> dist, exc |-> FALSE, bad |-> v1 = v2]

\* add_constraint whose forward update starts from the new variable's own row.
add_constraint_from_self(dist, v1, v2, d) ==
    IF dist[v1][v2] = uninit \/ d >= dist[v1][v2]
    THEN update_forward([dist EXCEPT ![v1][v2] = d], v1, v1, d, 0, v1 = v2)
    ELSE [dist |-> dist, exc |-> FALSE, bad |-> v1 = v2]

add_constraint(dist, v1, v2, d) ==
    LET bad == v1 = v2
    IN  IF dist[v1][v2] = uninit \/ d >= dist[v1][v2]
        THEN update_forward([dist EXCEPT ![v1][v2] = d], v1, v2, d, 0, bad)
        ELSE [dist |-> dist, exc |-> FALSE, bad |-> bad]

(***************************************************************************)
(* void add_constraints(uvar v1, level const & l, unsigned k)              *)
(* A run is [dist, exc, bad, where, entry]: where names the function whose *)
(* add threw and entry is the matrix at the entry of the add_constraint    *)
(* call that threw.                                                        *)
(***************************************************************************)
RECURSIVE add_constraints(_, _, _, _)
RECURSIVE add_constraints_each(_, _, _, _, _, _)
RECURSIVE add_constraints_rest(_, _, _, _, _, _)

\* The run r of an add_constraint call that was entered with matrix dist.
entered_with(r, dist) ==
    [dist |-> r.dist, exc |-> r.exc, bad |-> r.bad,
     where |-> IF r.exc THEN "add_constraint" ELSE "none",
     entry |-> dist]

add_constraints(dist, v1, l, k) ==
    CASE l.kind = "UVar" -> entered_with(add_constraint(dist, v1, l.idx, k), dist)
      [] l.kind = "Lift" ->
            IF add(k, l.offset).exc
            THEN [dist |-> dist, exc |-> TRUE, bad |-> FALSE,
                  where |-> "add_constraints", entry |-> dist]
            ELSE add_constraints(dist, v1, l.of, add(k, l.offset).val)
      [] l.kind = "Max" -> add_constraints_each(dist, v1, l.levels, 1, k, FALSE)

add_constraints_each(dist, v1, ls, i, k, bad) ==
    IF i > Len(ls)
    THEN [dist |-> dist, exc |-> FALSE, bad |-> bad, where |-> "none", entry |-> dist]
    ELSE add_constraints_rest(add_constraints(dist, v1, ls[i], k), v1, ls, i, k, bad)

\* The members after member i, whose run was r.
add_constraints_rest(r, v1, ls, i, k, bad) ==
    IF r.exc THEN [r EXCEPT !.bad = bad \/ r.bad]
    ELSE add_constraints_each(r.dist, v1, ls, i + 1, k, bad \/ r.bad)

(***************************************************************************)
(* level define_uvar(name const & n, level const & l)                      *)
(***************************************************************************)
\* define_uvar after add_var returned r and add_constraints ran as c.
defined(r, c) ==
    [status |-> IF c.exc THEN "overflow" ELSE "ok",
     uvars  |-> r.uvars,
     dist   |-> c.dist,
     bad    |-> c.bad,
     where  |-> c.where,
     entry  |-> c.entry,
     idx    |-> r.idx]

\* define_uvar from the result r of its add_var call.
define_uvar_with(r, l) ==
    IF r.exc
    THEN [status |-> "declared", uvars |-> r.uvars, dist |-> r.dist, bad |-> FALSE,
          where |-> "add_var", entry |-> r.dist, idx |-> 0]
    ELSE defined(r, add_constraints(r.dist, r.idx, l, 0))

define_uvar(uvars, dist, n, l) == define_uvar_with(add_var(uvars, dist, n), l)

(***************************************************************************)
(* Expressions (the expression collaborator): bound variable, application, *)
(* lambda (its body), constant with its levels, sort.                      *)
(***************************************************************************)
BVar(i) == [tag |-> "bvar", idx |-> i]

App(f, a) == [tag |-> "app", fn |-> f, arg |-> a]

Lambda(b) == [tag |-> "lambda", body |-> b]

Const(n, ls) == [tag |-> "const", name |-> n, levels |-> ls]

Sort(l) == [tag |-> "sort", level |-> l]

some_expr(e) == [some |-> TRUE, val |-> e]

none_expr == [some |-> FALSE, val |-> BVar(0)]

\* unsigned arithmetic wraps around
wrap(x) == x % (UIntMax + 1)

larger(a, b) == IF a >= b THEN a ELSE b

RECURSIVE get_loose_bvar_range(_)

\* The largest loose bound-variable index of e, plus one.
get_loose_bvar_range(e) ==
    CASE e.tag = "bvar"   -> e.idx + 1
      [] e.tag = "app"    -> larger(get_loose_bvar_range(e.fn), get_loose_bvar_range(e.arg))
      [] e.tag = "lambda" -> larger(get_loose_bvar_range(e.body) - 1, 0)
      [] OTHER            -> 0

has_loose_bvars(e) == get_loose_bvar_range(e) > 0

RECURSIVE lift_from(_, _, _)

\* e with every bound variable of index >= s raised by d
lift_from(e, s, d) ==
    CASE e.tag = "bvar"   -> IF e.idx >= s THEN BVar(e.idx + d) ELSE e
      [] e.tag = "app"    -> App(lift_from(e.fn, s, d), lift_from(e.arg, s, d))
      [] e.tag = "lambda" -> Lambda(lift_from(e.body, s + 1, d))
      [] OTHER            -> e

lift_loose_bvars(e, d) == lift_from(e, 0, d)

(***************************************************************************)
(* template<bool rev> struct instantiate_easy_fn, operator()(a, app)       *)
(***************************************************************************)
RECURSIVE instantiate_easy_fn(_, _, _, _, _)

\* easy_app(new_a, new_f): the application case once both sides are known
easy_app(new_a, new_f) ==
    IF new_a.some /\ new_f.some THEN some_expr(App(new_f.val, new_a.val)) ELSE none_expr

\* The easy path that reads the array in forward order whatever rev is.
instantiate_easy_fn_forward(rev, n, subst, a, app) ==
    IF ~has_loose_bvars(a) THEN some_expr(a)
    ELSE IF a.tag = "bvar" /\ a.idx < n THEN some_expr(subst[a.idx + 1])
    ELSE IF app /\ a.tag = "app"
         THEN easy_app(instantiate_easy_fn(rev, n, subst, a.arg, FALSE),
                       instantiate_easy_fn(rev, n, subst, a.fn, TRUE))
         ELSE none_expr

instantiate_easy_fn(rev, n, subst, a, app) ==
    IF ~has_loose_bvars(a) THEN some_expr(a)
    ELSE IF a.tag = "bvar" /\ a.idx < n
         THEN some_expr(subst[(IF rev THEN n - a.idx - 1 ELSE a.idx) + 1])
    ELSE IF app /\ a.tag = "app"
         THEN easy_app(instantiate_easy_fn(rev, n, subst, a.arg, FALSE),
                       instantiate_easy_fn(rev, n, subst, a.fn, TRUE))
         ELSE none_expr

(***************************************************************************)
(* expr instantiate(expr const & a, unsigned s, unsigned n, expr const *   *)
(* subst): the function handed to replace, and replace with it.            *)
(***************************************************************************)
\* The rewrite that substitutes without lifting by the binders crossed.
instantiate_fn_no_lift(m, offset, s, n, subst) ==
    IF wrap(s + offset) < s THEN some_expr(m)
    ELSE IF wrap(s + offset) >= get_loose_bvar_range(m) THEN some_expr(m)
    ELSE IF m.tag = "bvar" /\ m.idx >= wrap(s + offset)
         THEN IF wrap(wrap(s + offset) + n) < wrap(s + offset)
                 \/ m.idx < wrap(wrap(s + offset) + n)
              THEN some_expr(subst[m.idx - wrap(s + offset) + 1])
              ELSE some_expr(BVar(m.idx - n))
         ELSE none_expr

\* [=](expr const & m, unsigned offset) -> optional<expr> of instantiate
instantiate_fn(m, offset, s, n, subst) ==
    IF wrap(s + offset) < s THEN some_expr(m)
    ELSE IF wrap(s + offset) >= get_loose_bvar_range(m) THEN some_expr(m)
    ELSE IF m.tag = "bvar" /\ m.idx >= wrap(s + offset)
         THEN IF wrap(wrap(s + offset) + n) < wrap(s + offset)
                 \/ m.idx < wrap(wrap(s + offset) + n)
              THEN some_expr(lift_loose_bvars(subst[m.idx - wrap(s + offset) + 1], offset))
              ELSE some_expr(BVar(m.idx - n))
         ELSE none_expr

RECURSIVE replace_instantiate(_, _, _, _, _)
RECURSIVE replace_instantiate_at(_, _, _, _, _, _)

\* replace(a, f) with f = instantiate_fn: f decides a node or replace
\* rebuilds it from its children, a lambda's body one binder deeper.
replace_instantiate(e, offset, s, n, subst) ==
    replace_instantiate_at(instantiate_fn(e, offset, s, n, subst), e, offset, s, n, subst)

replace_instantiate_at(r, e, offset, s, n, subst) ==
    IF r.some THEN r.val
    ELSE CASE e.tag = "app" ->
                 App(replace_instantiate(e.fn, offset, s, n, subst),
                     replace_instantiate(e.arg, offset, s, n, subst))
           [] e.tag = "lambda" ->
                 Lambda(replace_instantiate(e.body, offset + 1, s, n, subst))
           [] OTHER -> e

\* the easy path's answer r when there is one, the generic rewrite otherwise
easy_or_replace(r, a, s, n, subst) ==
    IF r.some THEN r.val ELSE replace_instantiate(a, 0, s, n, subst)

instantiate(a, s, n, subst) ==
    IF s >= get_loose_bvar_range(a) \/ n = 0 THEN a
    ELSE IF s = 0
         THEN easy_or_replace(instantiate_easy_fn(FALSE, n, subst, a, TRUE), a, s, n, subst)
         ELSE replace_instantiate(a, 0, s, n, subst)

(***************************************************************************)
(* expr instantiate_rev(expr const & a, unsigned n, expr const * subst)    *)
(***************************************************************************)
\* [=](expr const & m, unsigned offset) -> optional<expr> of instantiate_rev
instantiate_rev_fn(m, offset, n, subst) ==
    IF offset >= get_loose_bvar_range(m) THEN some_expr(m)
    ELSE IF m.tag = "bvar" /\ m.idx >= offset
         THEN IF wrap(offset + n) < offset \/ m.idx < wrap(offset + n)
              THEN some_expr(lift_loose_bvars(subst[n - (m.idx - offset) - 1 + 1], offset))
              ELSE some_expr(BVar(m.idx - n))
         ELSE none_expr

RECURSIVE replace_instantiate_rev(_, _, _, _)
RECURSIVE replace_instantiate_rev_at(_, _, _, _, _)

replace_instantiate_rev(e, offset, n, subst) ==
    replace_instantiate_rev_at(instantiate_rev_fn(e, offset, n, subst), e, offset, n, subst)

replace_instantiate_rev_at(r, e, offset, n, subst) ==
    IF r.some THEN r.val
    ELSE CASE e.tag = "app" ->
                 App(replace_instantiate_rev(e.fn, offset, n, subst),
                     replace_instantiate_rev(e.arg, offset, n, subst))
           [] e.tag = "lambda" ->
                 Lambda(replace_instantiate_rev(e.body, offset + 1, n, subst))
           [] OTHER -> e

easy_or_replace_rev(r, a, n, subst) ==
    IF r.some THEN r.val ELSE replace_instantiate_rev(a, 0, n, subst)

instantiate_rev(a, n, subst) ==
    IF ~has_loose_bvars(a) THEN a
    ELSE easy_or_replace_rev(instantiate_easy_fn(TRUE, n, subst, a, TRUE), a, n, subst)

(***************************************************************************)
(* Beta reduction: is_head_beta, apply_beta, head_beta_reduce.  An         *)
(* argument stack args holds the arguments in reverse order: args[0], here *)
(* the first element of the sequence, is the last argument.                *)
(***************************************************************************)
is_app(t) == t.tag = "app"

is_lambda(t) == t.tag = "lambda"

binding_body(f) == f.body

RECURSIVE get_app_fn(_)

\* the head of a chain of applications
get_app_fn(t) == IF is_app(t) THEN get_app_fn(t.fn) ELSE t

RECURSIVE get_app_rev_args(_)

\* the arguments of a chain of applications, last argument first
get_app_rev_args(t) ==
    IF is_app(t) THEN <<t.arg>> \o get_app_rev_args(t.fn) ELSE <<>>

RECURSIVE mk_rev_app(_, _, _)

\* f applied to args[num_args - 1], ..., args[0]
mk_rev_app(f, num_args, args) ==
    IF num_args = 0 THEN f ELSE mk_rev_app(App(f, args[num_args]), num_args - 1, args)

\* bool is_head_beta(expr const & t)
is_head_beta(t) == is_app(t) /\ is_lambda(get_app_fn(t))

RECURSIVE peel(_, _, _)

\* while (is_lambda(binding_body(f)) && m < num_args) { f = binding_body(f); m++; }
peel(f, m, num_args) ==
    IF is_lambda(binding_body(f)) /\ m < num_args
    THEN peel(binding_body(f), m + 1, num_args)
    ELSE [f |-> f, m |-> m]

\* the return of apply_beta once the loop has left f and m in p
apply_peeled(p, num_args, args) ==
    mk_rev_app(instantiate(binding_body(p.f), 0, p.m,
                           SubSeq(args, num_args - p.m + 1, num_args)),
               num_args - p.m, args)

\* Bulk reduction that hands instantiate the wrong end of the stack.
apply_beta_stack_start(f, num_args, args) ==
    IF num_args = 0 THEN f
    ELSE IF ~is_lambda(f) THEN mk_rev_app(f, num_args, args)
    ELSE mk_rev_app(instantiate(binding_body(peel(f, 1, num_args).f), 0,
                                peel(f, 1, num_args).m,
                                SubSeq(args, 1, peel(f, 1, num_args).m)),
                    num_args - peel(f, 1, num_args).m, args)

\* expr apply_beta(expr f, unsigned num_args, expr const * args)
apply_beta(f, num_args, args) ==
    IF num_args = 0 THEN f
    ELSE IF ~is_lambda(f) THEN mk_rev_app(f, num_args, args)
    ELSE apply_peeled(peel(f, 1, num_args), num_args, args)

\* One step of head_beta_reduce that reduces a head it should return.
head_beta_step_always(t) ==
    [done |-> FALSE,
     t    |-> apply_beta(get_app_fn(t), Len(get_app_rev_args(t)), get_app_rev_args(t))]

\* expr head_beta_reduce(expr const & t), one call of the recursion: it
\* returns t, or goes on with apply_beta of the head.
head_beta_step(t) ==
    IF ~is_head_beta(t) THEN [done |-> TRUE, t |-> t]
    ELSE [done |-> FALSE,
          t    |-> apply_beta(get_app_fn(t), Len(get_app_rev_args(t)), get_app_rev_args(t))]

(***************************************************************************)
(* Universe levels with parameters (the level collaborator of the          *)
(* substitution engine) and instantiate_lparams.                           *)
(***************************************************************************)
LZero == [ltag |-> "zero"]

LSucc(l) == [ltag |-> "succ", of |-> l]

LParam(n) == [ltag |-> "param", name |-> n]

RECURSIVE level_has_param(_)

level_has_param(l) ==
    CASE l.ltag = "param" -> TRUE
      [] l.ltag = "succ"  -> level_has_param(l.of)
      [] OTHER            -> FALSE

RECURSIVE instantiate_level(_, _, _)

\* instantiate(l, lps, ls): the parameter named lps[i] becomes ls[i]
instantiate_level(l, lps, ls) ==
    CASE l.ltag = "param" ->
            IF \E i \in 1 .. Len(lps) : lps[i] = l.name
            THEN ls[CHOOSE i \in 1 .. Len(lps) :
                       lps[i] = l.name /\ \A j \in 1 .. i - 1 : lps[j] # l.name]
            ELSE l
      [] l.ltag = "succ" -> LSucc(instantiate_level(l.of, lps, ls))
      [] OTHER -> l

RECURSIVE has_param_univ(_)

has_param_univ(e) ==
    CASE e.tag = "const"  -> \E i \in 1 .. Len(e.levels) : level_has_param(e.levels[i])
      [] e.tag = "sort"   -> level_has_param(e.level)
      [] e.tag = "app"    -> has_param_univ(e.fn) \/ has_param_univ(e.arg)
      [] e.tag = "lambda" -> has_param_univ(e.body)
      [] OTHER            -> FALSE

RECURSIVE replace_lparams(_, _, _)

\* replace(e, f) with the function of instantiate_lparams
replace_lparams(e, lps, ls) ==
    IF ~has_param_univ(e) THEN e
    ELSE CASE e.tag = "const" ->
                 Const(e.name, [i \in 1 .. Len(e.levels) |->
                                   instantiate_level(e.levels[i], lps, ls)])
           [] e.tag = "sort" -> Sort(instantiate_level(e.level, lps, ls))
           [] e.tag = "app" ->
                 App(replace_lparams(e.fn, lps, ls), replace_lparams(e.arg, lps, ls))
           [] e.tag = "lambda" -> Lambda(replace_lparams(e.body, lps, ls))
           [] OTHER -> e

instantiate_lparams(e, lps, ls) ==
    IF ~has_param_univ(e) THEN e ELSE replace_lparams(e, lps, ls)

(***************************************************************************)
(* class instantiate_univ_cache.  m_cache is a vector of optional entries: *)
(* [size, at], at being defined on the indices that hold an entry.         *)
(***************************************************************************)
LEAN_INST_UNIV_CACHE_SIZE == 1023

\* instantiate_univ_cache(unsigned capacity)
m_capacity == IF LEAN_INST_UNIV_CACHE_SIZE = 0 THEN 1 ELSE LEAN_INST_UNIV_CACHE_SIZE

EmptyCache == [size |-> 0, at |-> <<>>]

\* d.get_name().hash()
hash(n) ==
    CASE n = "f" -> 5
      [] n = "h" -> 5 + m_capacity
      [] n = "k" -> 6
      [] OTHER   -> 0

\* is_eqp(info_c, d): the same declaration object
is_eqp(d1, d2) == d1.id = d2.id

\* A lookup that takes declarations of one name for the same declaration.
is_cached_by_name(cache, d, ls) ==
    IF cache.size = 0 THEN none_expr
    ELSE IF (hash(d.name) % m_capacity) \in DOMAIN cache.at
         THEN IF cache.at[hash(d.name) % m_capacity].info.name # d.name THEN none_expr
              ELSE IF ls = cache.at[hash(d.name) % m_capacity].ls
                   THEN some_expr(cache.at[hash(d.name) % m_capacity].r)
                   ELSE none_expr
         ELSE none_expr

\* optional<expr> is_cached(constant_info const & d, levels const & ls)
is_cached(cache, d, ls) ==
    IF cache.size = 0 THEN none_expr
    ELSE IF (hash(d.name) % m_capacity) \in DOMAIN cache.at
         THEN IF ~is_eqp(cache.at[hash(d.name) % m_capacity].info, d) THEN none_expr
              ELSE IF ls = cache.at[hash(d.name) % m_capacity].ls
                   THEN some_expr(cache.at[hash(d.name) % m_capacity].r)
                   ELSE none_expr
         ELSE none_expr

\* m_cache with entry e at index idx
put(at, idx, e) == [i \in DOMAIN at \cup {idx} |-> IF i = idx THEN e ELSE at[i]]

\* A save that leaves an occupied bucket as it is.
save_if_empty(cache, d, ls, r) ==
    IF cache.size # 0 /\ (hash(d.name) % cache.size) \in DOMAIN cache.at
    THEN cache
    ELSE [size |-> IF cache.size = 0 THEN m_capacity ELSE cache.size,
          at   |-> put(cache.at, hash(d.name) % m_capacity,
                       [info |-> d, ls |-> ls, r |-> r])]

\* void save(constant_info const & d, levels const & ls, expr const & r)
save(cache, d, ls, r) ==
    [size |-> IF cache.size = 0 THEN m_capacity ELSE cache.size,
     at   |-> put(cache.at,
                  hash(d.name) % (IF cache.size = 0 THEN m_capacity ELSE cache.size),
                  [info |-> d, ls |-> ls, r |-> r])]

\* void clear()
clear(cache) == EmptyCache

\* A cache instance shared by every execution context.
get_shared_univ_cache(c) == 1

\* MK_THREAD_LOCAL_GET: the instance of the calling execution context c
get_univ_cache(c) == c

\* The rest of instantiate_*_lparams once the cache answered c for term e.
cached_or_computed(c, cache, info, e, ls) ==
    IF c.some THEN [ret |-> c.val, cache |-> cache, hit |-> TRUE]
    ELSE [ret   |-> instantiate_lparams(e, info.lparams, ls),
          cache |-> save(cache, info, ls, instantiate_lparams(e, info.lparams, ls)),
          hit   |-> FALSE]

\* expr instantiate_type_lparams(constant_info const & info, levels const & ls)
instantiate_type_lparams(cache, info, ls) ==
    IF ls = <<>> \/ ~has_param_univ(info.type)
    THEN [ret |-> info.type, cache |-> cache, hit |-> FALSE]
    ELSE cached_or_computed(is_cached(cache, info, ls), cache, info, info.type, ls)

\* expr instantiate_value_lparams(constant_info const & info, levels const & ls)
instantiate_value_lparams(cache, info, ls) ==
    IF ls = <<>> \/ ~has_param_univ(info.value)
    THEN [ret |-> info.value, cache |-> cache, hit |-> FALSE]
    ELSE cached_or_computed(is_cached(cache, info, ls), cache, info, info.value, ls)

(***************************************************************************)
(* Inputs of the environment.                                              *)
(***************************************************************************)
\* Offsets of the lifts a caller builds.
LiftOffsets == {2, 5, IntMax - 1}

VarLevels(n) == {UVar(i) : i \in 0 .. n - 1}

Atoms(n) == VarLevels(n) \cup {Lift(v, o) : v \in VarLevels(n), o \in LiftOffsets}

\* Levels built from the first n declared variables.
Levels(n) ==
    Atoms(n) \cup {Max(<<a, b>>) : a \in Atoms(n), b \in VarLevels(n)}
             \cup {Max(<<a, b>>) : a \in VarLevels(n), b \in Atoms(n)}
             \cup {Lift(Lift(UVar(0), 2), IntMax - 1)}

\* The name of the next new variable, or a name already declared.
Names == {BaseName} \cup {FreshNames[i] : i \in 1 .. Len(FreshNames)}

DeclaredNames == {n \in Names : declared(m_uvars, n)}

NextName == FreshNames[size(m_uvars)]

NoCall == [op |-> "init", n |-> BaseName, v1 |-> 0, v2 |-> 0, d |-> 0]

\* void init_uvars(), called by imp()
InitEnv ==
    /\ m_uvars = [i \in {0} |-> BaseName]
    /\ m_uvar_distances = [i \in {0} |-> [j \in {0} |-> 0]]
    /\ call = NoCall
    /\ outcome = [status |-> "ok", where |-> "none", idx |-> 0]
    /\ all_succeeded = TRUE
    /\ assert_failed = FALSE
    /\ ncalls = 0
    /\ scenario1 = 0
    /\ defn = UVar(0)

\* Concrete scenario 1: declare u1, declare u2, u1 >= u2 + 3, u2 >= u0 + 1.
Scenario1 ==
    << [NoCall EXCEPT !.op = "define_uvar", !.n = "u1"],
       [NoCall EXCEPT !.op = "define_uvar", !.n = "u2"],
       [NoCall EXCEPT !.op = "add_constraint", !.v1 = 1, !.v2 = 2, !.d = 3],
       [NoCall EXCEPT !.op = "add_constraint", !.v1 = 2, !.v2 = 0, !.d = 1] >>

Monitor(c, l) ==
    IF /\ scenario1 >= 0 /\ scenario1 < Len(Scenario1)
       /\ c = Scenario1[scenario1 + 1] /\ l = UVar(0)
    THEN scenario1 + 1
    ELSE -1

\* environment::define_uvar(n, l)
DefineUvar(n, l, track, most) ==
    /\ size(m_uvars) < most
    /\ defn' = IF track THEN l ELSE defn
    /\ \E r \in {define_uvar(m_uvars, m_uvar_distances, n, l)},
          c \in {[NoCall EXCEPT !.op = "define_uvar", !.n = n]} :
           /\ m_uvars' = r.uvars
           /\ m_uvar_distances' = r.dist
           /\ call' = c
           /\ outcome' = [status |-> r.status, where |-> r.where, idx |-> r.idx]
           /\ all_succeeded' = (all_succeeded /\ r.status = "ok")
           /\ assert_failed' = (assert_failed \/ r.bad)
           /\ scenario1' = Monitor(c, l)
    /\ UNCHANGED <<ncalls, substvars, cachevars>>

\* imp::add_constraint(v1, v2, d) called on declared variables v1 # v2
AddConstraint(v1, v2, d) ==
    /\ ncalls < MaxDirectCalls
    /\ v1 \in DOMAIN m_uvars /\ v2 \in DOMAIN m_uvars /\ v1 # v2
    /\ \E r \in {add_constraint(m_uvar_distances, v1, v2, d)},
          c \in {[NoCall EXCEPT !.op = "add_constraint", !.v1 = v1, !.v2 = v2, !.d = d]} :
           /\ m_uvar_distances' = r.dist
           /\ call' = c
           /\ outcome' = [status |-> IF r.exc THEN "overflow" ELSE "ok",
                          where  |-> IF r.exc THEN "add_constraint" ELSE "none",
                          idx    |-> 0]
           /\ all_succeeded' = (all_succeeded /\ ~r.exc)
           /\ assert_failed' = (assert_failed \/ r.bad)
           /\ scenario1' = Monitor(c, UVar(0))
    /\ ncalls' = ncalls + 1
    /\ UNCHANGED <<m_uvars, defn, substvars, cachevars>>

(***************************************************************************)
(* Inputs of the substitution engine.                                      *)
(***************************************************************************)
\* The longest substitution array.
MaxSubstLen == 2

a_ == Const("a", <<>>)

b_ == Const("b", <<>>)

\* Bound-variable indices of the input terms (get_loose_bvar_range is unsigned).
Indices == {0, 1, 2, UIntMax - 1}

Leaves == {BVar(i) : i \in Indices} \cup {Const("c", <<>>)}

Terms ==
    Leaves \cup {App(f, x) : f \in Leaves, x \in Leaves}
           \cup {Lambda(x) : x \in Leaves}
           \cup {Lambda(Lambda(x)) : x \in Leaves}
           \cup {Lambda(App(f, x)) : f \in Leaves, x \in Leaves}
           \cup {App(Lambda(f), x) : f \in Leaves, x \in Leaves}

SubstTerms == {a_, b_, App(BVar(0), a_)}

Substs == UNION {[1 .. n -> SubstTerms] : n \in 0 .. MaxSubstLen}

Starts == {0, 1, 2, UIntMax - 2, UIntMax - 1, UIntMax}

IdleSubst ==
    /\ op = "none" /\ term_in = a_ /\ start_in = 0 /\ subst_in = <<>> /\ result = a_
    /\ depth = 0

InitSubst ==
    /\ op = "none"
    /\ term_in \in Terms
    /\ start_in \in Starts
    /\ subst_in \in Substs
    /\ result = term_in
    /\ depth = 0

\* instantiate(term, start, n, subst)
Instantiate ==
    /\ op = "none"
    /\ op' = "instantiate"
    /\ result' = instantiate(term_in, start_in, Len(subst_in), subst_in)
    /\ UNCHANGED <<term_in, start_in, subst_in, depth, envvars, cachevars>>

\* instantiate_rev(term, n, subst)
InstantiateRev ==
    /\ op = "none" /\ start_in = 0
    /\ op' = "instantiate_rev"
    /\ result' = instantiate_rev(term_in, Len(subst_in), subst_in)
    /\ UNCHANGED <<term_in, start_in, subst_in, depth, envvars, cachevars>>

(***************************************************************************)
(* Inputs of beta reduction.                                               *)
(***************************************************************************)
\* Largest number of arguments on a stack.
MaxArgs == 3

BetaArgs == {a_, BVar(0), Lambda(BVar(0)), App(BVar(1), a_)}

BetaBodies == {BVar(0), BVar(1), BVar(2), BVar(3), App(BVar(1), BVar(0)),
               App(BVar(0), BVar(2)), Lambda(App(BVar(0), BVar(1)))}

\* Functions: not a lambda, and one, two or three nested lambdas.
BetaFns ==
    {a_, BVar(1), App(BVar(0), a_)}
        \cup {Lambda(b) : b \in BetaBodies}
        \cup {Lambda(Lambda(b)) : b \in BetaBodies}
        \cup {Lambda(Lambda(Lambda(b))) : b \in BetaBodies}

ArgStacks == UNION {[1 .. n -> BetaArgs] : n \in 0 .. MaxArgs}

InitBeta ==
    /\ op = "none"
    /\ term_in \in BetaFns
    /\ start_in = 0
    /\ subst_in \in ArgStacks
    /\ result = term_in
    /\ depth = 0

\* apply_beta(f, num_args, args)
ApplyBeta ==
    /\ op = "none"
    /\ op' = "apply_beta"
    /\ result' = apply_beta(term_in, Len(subst_in), subst_in)
    /\ UNCHANGED <<term_in, start_in, subst_in, depth, envvars, cachevars>>

\* Lambdas and arguments of the terms head_beta_reduce is called with.
\* The nested calls of head_beta_reduce are counted modulo DepthMod.
DepthMod == 2

\* lambda x y. y y x and lambda x y. y x y
U_ == Lambda(Lambda(App(App(BVar(0), BVar(0)), BVar(1))))

V_ == Lambda(Lambda(App(App(BVar(0), BVar(1)), BVar(0))))

HeadLambdas == {Lambda(BVar(0)), Lambda(App(BVar(0), BVar(0))), Lambda(a_),
                Lambda(App(BVar(0), b_)), Lambda(Lambda(BVar(1))),
                Lambda(Lambda(BVar(0))), Lambda(Lambda(App(BVar(1), BVar(0)))),
                U_, V_}

HeadArgs == {a_, b_, Lambda(BVar(0)), Lambda(App(BVar(0), BVar(0))), U_, V_}

HeadTerms ==
    HeadArgs
        \cup {App(f, x) : f \in HeadLambdas \cup {a_}, x \in HeadArgs}
        \cup {App(App(f, x), y) : f \in HeadLambdas, x \in HeadArgs, y \in HeadArgs}

InitHead ==
    /\ op = "head_beta_reduce"
    /\ term_in \in HeadTerms
    /\ start_in = 0
    /\ subst_in = <<>>
    /\ result = term_in
    /\ depth = 0

\* head_beta_reduce(t) with a head to reduce: it calls itself on
\* apply_beta(f, args.size(), args.data())
HeadBetaReduce ==
    /\ op = "head_beta_reduce"
    /\ ~head_beta_step(result).done
    /\ result' = head_beta_step(result).t
    /\ depth' = (depth + 1) % DepthMod
    /\ UNCHANGED <<op, term_in, start_in, subst_in, envvars, cachevars>>

\* head_beta_reduce(t) with no head to reduce: it returns t
HeadBetaReturn ==
    /\ op = "head_beta_reduce"
    /\ head_beta_step(result).done
    /\ op' = "returned"
    /\ result' = head_beta_step(result).t
    /\ UNCHANGED <<term_in, start_in, subst_in, depth, envvars, cachevars>>

(***************************************************************************)
(* Inputs of the cached universe-parameter substitution.                   *)
(***************************************************************************)
\* Number of execution contexts (threads), each with its own two caches.
NumContexts == 2

Contexts == 1 .. NumContexts

\* The execution context of the calls of a single thread.
MainContexts == {1}

\* Declarations: f, f redefined (another object of the same name), h whose
\* name falls into f's bucket, and k without universe parameters.
Decl_f == [id |-> 1, name |-> "f", lparams |-> <<"u">>,
           type  |-> Sort(LParam("u")),
           value |-> Const("g", <<LParam("u")>>)]

Decl_f2 == [id |-> 2, name |-> "f", lparams |-> <<"u">>,
            type  |-> Sort(LSucc(LParam("u"))),
            value |-> App(Const("g", <<LParam("u")>>), Sort(LZero))]

Decl_h == [id |-> 3, name |-> "h", lparams |-> <<"u">>,
           type  |-> Const("N", <<>>),
           value |-> Lambda(Sort(LParam("u")))]

Decl_k == [id |-> 4, name |-> "k", lparams |-> <<>>,
           type  |-> Sort(LZero),
           value |-> Const("N", <<>>)]

\* Another declaration object equal to f in every field.
Decl_f_copy == [Decl_f EXCEPT !.id = 5]

Decls == {Decl_f, Decl_f2, Decl_f_copy, Decl_h, Decl_k}

\* The declarations and level lists used by several contexts at once.
SharedDecls == {Decl_f, Decl_h}

SharedLevelLists == {<<LZero>>}

\* What a cache holds for d and ls: "table" when it has no bucket at all,
\* "bucket" when d's bucket is empty, "object" when the bucket holds another
\* declaration object, "levels" when it holds d with another level list,
\* "same" when it holds d with ls.
holding(cache, d, ls) ==
    IF cache.size = 0 THEN "table"
    ELSE IF (hash(d.name) % m_capacity) \notin DOMAIN cache.at THEN "bucket"
    ELSE IF cache.at[hash(d.name) % m_capacity].info.id # d.id THEN "object"
    ELSE IF cache.at[hash(d.name) % m_capacity].ls # ls THEN "levels"
    ELSE "same"

\* Level lists of the length of d's parameter list (the lean_assert of
\* instantiate_*_lparams).
LevelLists(d) ==
    IF Len(d.lparams) = 0 THEN {<<>>} ELSE {<<LZero>>, <<LSucc(LZero)>>}

NoCacheCall == [op |-> "none", ctx |-> 1, info |-> Decl_k, ls |-> <<>>, hit |-> FALSE,
                before |-> "table"]

InitCache ==
    /\ type_cache = [c \in Contexts |-> EmptyCache]
    /\ value_cache = [c \in Contexts |-> EmptyCache]
    /\ cache_call = NoCacheCall
    /\ ret = Decl_k.type

\* instantiate_type_lparams(d, ls) called in context c
InstantiateTypeLparams(c, d, ls) ==
    /\ \E r \in {instantiate_type_lparams(type_cache[get_univ_cache(c)], d, ls)} :
          /\ type_cache' = [type_cache EXCEPT ![get_univ_cache(c)] = r.cache]
          /\ ret' = r.ret
          /\ cache_call' = [op |-> "type", ctx |-> c, info |-> d, ls |-> ls, hit |-> r.hit,
                            before |-> holding(type_cache[c], d, ls)]
    /\ UNCHANGED <<value_cache, envvars, substvars>>

\* instantiate_value_lparams(d, ls) called in context c
InstantiateValueLparams(c, d, ls) ==
    /\ \E r \in {instantiate_value_lparams(value_cache[get_univ_cache(c)], d, ls)} :
          /\ value_cache' = [value_cache EXCEPT ![get_univ_cache(c)] = r.cache]
          /\ ret' = r.ret
          /\ cache_call' = [op |-> "value", ctx |-> c, info |-> d, ls |-> ls, hit |-> r.hit,
                            before |-> holding(value_cache[c], d, ls)]
    /\ UNCHANGED <<type_cache, envvars, substvars>>

\* clear_instantiate_cache() called in context c
ClearInstantiateCache(c) ==
    /\ type_cache' = [type_cache EXCEPT
                         ![get_univ_cache(c)] = clear(type_cache[get_univ_cache(c)])]
    /\ value_cache' = [value_cache EXCEPT
                          ![get_univ_cache(c)] = clear(value_cache[get_univ_cache(c)])]
    /\ cache_call' = [NoCacheCall EXCEPT !.op = "clear", !.ctx = c]
    /\ UNCHANGED <<ret, envvars, substvars>>

Init == InitEnv /\ IdleSubst /\ InitCache

\* A call with a new name and any level over the declared variables.
DefineNew(track, most) ==
    \E l \in Levels(size(m_uvars)) : DefineUvar(NextName, l, track, most)

\* A call with a name that is already declared.
DefineAgain(track, most) ==
    \E n \in DeclaredNames : DefineUvar(n, UVar(0), track, most)

Next == DefineNew(FALSE, MaxVars) \/ DefineAgain(FALSE, MaxVars)

Spec == Init /\ [][Next]_vars

NextDef == DefineNew(TRUE, MaxDefVars) \/ DefineAgain(TRUE, MaxDefVars)

SpecDef == Init /\ [][NextDef]_vars

\* Plain declarations and direct add_constraint calls.
DirectOffsets == {0, 1, 3, IntMax - 1, IntMax, UIntMax}

NextDirect ==
    \/ DefineUvar(NextName, UVar(0), FALSE, MaxVars)
    \/ \E v1 \in DOMAIN m_uvars, v2 \in DOMAIN m_uvars, d \in DirectOffsets :
          AddConstraint(v1, v2, d)

SpecDirect == Init /\ [][NextDirect]_vars

\* Definitions by offsets around the largest bound, INT_MAX - 1.
RangeOffsets == {1, 2, IntMax - 2, IntMax - 1, IntMax, UIntMax}

RangeLevels(n) ==
    VarLevels(n) \cup {Lift(v, o) : v \in VarLevels(n), o \in RangeOffsets}
                 \cup {Lift(Lift(v, 1), o) : v \in VarLevels(n), o \in {IntMax - 2, IntMax - 1}}
                 \cup {Max(<<Lift(a, 1), b>>) : a \in VarLevels(n), b \in VarLevels(n)}

NextRange == \E l \in RangeLevels(size(m_uvars)) : DefineUvar(NextName, l, TRUE, MaxVars)

SpecRange == Init /\ [][NextRange]_vars

NextSubst == Instantiate \/ InstantiateRev

\* a fresh environment, empty caches and the arguments of one call
InitCall == InitEnv /\ InitSubst /\ InitCache

SpecSubst == InitCall /\ [][NextSubst]_vars

\* a fresh environment, empty caches and the arguments of apply_beta
InitApply == InitEnv /\ InitBeta /\ InitCache

NextBeta == ApplyBeta

SpecBeta == InitApply /\ [][NextBeta]_vars

\* a fresh environment, empty caches and the argument of head_beta_reduce
InitReduce == InitEnv /\ InitHead /\ InitCache

NextHead == HeadBetaReduce \/ HeadBetaReturn

\* A call of head_beta_reduce that has begun goes on running.
SpecHead == InitReduce /\ [][NextHead]_vars /\ WF_vars(NextHead)

NextCache ==
    \/ \E c \in MainContexts, d \in Decls : \E ls \in LevelLists(d) :
          InstantiateTypeLparams(c, d, ls)
    \/ \E c \in MainContexts, d \in Decls : \E ls \in LevelLists(d) :
          InstantiateValueLparams(c, d, ls)
    \/ \E c \in MainContexts : ClearInstantiateCache(c)

SpecCache == Init /\ [][NextCache]_vars

\* The calls of several execution contexts, interleaved.
NextContexts ==
    \/ \E c \in Contexts, d \in SharedDecls, ls \in SharedLevelLists :
          InstantiateTypeLparams(c, d, ls)
    \/ \E c \in Contexts, d \in SharedDecls, ls \in SharedLevelLists :
          InstantiateValueLparams(c, d, ls)
    \/ \E c \in Contexts : ClearInstantiateCache(c)

SpecContexts == Init /\ [][NextContexts]_vars

(***************************************************************************)
(* Properties of the universe constraint environment.                      *)
(***************************************************************************)
Declared == DOMAIN m_uvars

\* Offsets asked of is_ge: every non-negative int and two negative ones.
QueryOffsets == {IntMin, -1} \cup (0 .. IntMax)

holds(l1, l2, k) == LET r == is_ge(l1, l2, k) IN ~r.exc /\ r.val

\* C1: in an environment reached by define_uvar calls that all succeeded,
\* is_ge is transitive on declared variables: is_ge(uA, uB, d1) and
\* is_ge(uB, uC, d2) imply is_ge(uA, uC, d1 + d2) when d1 + d2 is an int.
C1_Transitive ==
    all_succeeded =>
        \A a \in Declared, b \in Declared, d1 \in QueryOffsets :
            holds(UVar(a), UVar(b), d1) =>
                \A c \in Declared, d2 \in QueryOffsets :
                    (/\ d1 + d2 >= IntMin /\ d1 + d2 <= IntMax
                     /\ holds(UVar(b), UVar(c), d2))
                        => holds(UVar(a), UVar(c), d1 + d2)

\* C1 witness: u2 >= u1 + 2 and u1 >= u0 + 2 give u2 >= u0 + 4, a bound that
\* no level of the inputs asserts directly (4 is no sum of one lift chain).
C1_Witness ==
    /\ all_succeeded /\ size(m_uvars) >= 3
    /\ m_uvar_distances[2][1] = 2 /\ m_uvar_distances[1][0] = 2
    /\ m_uvar_distances[2][0] = 4
    /\ holds(UVar(2), UVar(0), 4)

\* C2 (as claimed): from one state to the next, a known entry of the matrix
\* never becomes unknown and its value never decreases.
C2_MonotonicWidening ==
    [][\A v1 \in Declared, v2 \in Declared :
          m_uvar_distances[v1][v2] # uninit =>
              /\ m_uvar_distances'[v1][v2] # uninit
              /\ m_uvar_distances'[v1][v2] >= m_uvar_distances[v1][v2]]_vars

\* C3 (as claimed): when add_constraint fails with "universe overflow", the
\* matrix is the one the failed add_constraint call was entered with.
C3_FailedInsertionLeavesMatrix ==
    [][(outcome'.status = "overflow" /\ outcome'.where = "add_constraint") =>
          m_uvar_distances' =
              IF call'.op = "add_constraint" THEN m_uvar_distances
              ELSE define_uvar(m_uvars, m_uvar_distances, call'.n, defn').entry]_vars

\* C4 (as claimed): after declaring u1 and u2, add_constraint(u1, u2, 3) and
\* then add_constraint(u2, u0, 1), is_ge(u1, u0, 4) is true and
\* is_ge(u1, u0, 5) is false.
C4_Scenario1 ==
    scenario1 = Len(Scenario1) =>
        /\ holds(UVar(1), UVar(0), 4)
        /\ ~holds(UVar(1), UVar(0), 5)

\* Levels asked about on the right of is_ge, over the first n variables.
QueryLevels(n) ==
    VarLevels(n) \cup {Lift(v, 2) : v \in VarLevels(n)}
                 \cup {Max(<<a, b>>) : a \in VarLevels(n), b \in VarLevels(n)}
                 \cup {Lift(Max(<<a, b>>), 5) : a \in VarLevels(n), b \in VarLevels(n)}

\* C5 (as claimed): after define_uvar(n, L) succeeds and returns w, for every
\* level L2 over the variables declared before and every offset k for which
\* no checked arithmetic overflows, is_ge(w, L2, k) equals is_ge(L, L2, k).
C5_DefineStandsFor ==
    (call.op = "define_uvar" /\ outcome.status = "ok") =>
        \A l2 \in QueryLevels(outcome.idx), k \in QueryOffsets :
            LET rw == is_ge(UVar(outcome.idx), l2, k)
                rl == is_ge(defn, l2, k)
            IN  (~rw.exc /\ ~rl.exc) => rw.val = rl.val

\* C6: define_uvar(n, L) with the name of a declared variable (variable 0
\* included) fails with "already declared" and leaves the variable list and
\* the distance matrix as they were.
C6_DuplicateRejected ==
    [][(call'.op = "define_uvar" /\ declared(m_uvars, call'.n) /\ call' # call) =>
          /\ outcome'.status = "declared"
          /\ m_uvars' = m_uvars
          /\ m_uvar_distances' = m_uvar_distances]_vars

\* C6 witness: a call that named variable 0 again has been rejected.
C6_Witness ==
    /\ call.op = "define_uvar" /\ call.n = BaseName
    /\ outcome.status = "declared" /\ size(m_uvars) >= 2

\* C7: in every state reached by define_uvar calls, distances[v][v] = 0 for
\* every declared v and no lean_assert of add_constraint has failed.
C7_ZeroDiagonal ==
    /\ \A v \in Declared : m_uvar_distances[v][v] = 0
    /\ ~assert_failed

\* C7 witness: after a call that overflowed, a later variable got its bound
\* on u0 by forward propagation through u1.
C7_Witness ==
    /\ size(m_uvars) >= 3 /\ ~all_succeeded
    /\ m_uvar_distances[2][1] # uninit
    /\ m_uvar_distances[2][0] # uninit
    /\ m_uvar_distances[2][0] > m_uvar_distances[2][1]

(***************************************************************************)
(* Properties of the substitution engine.                                  *)
(***************************************************************************)
RECURSIVE reference_subst(_, _, _, _, _)

\* The substitution as the specification words it: a reference under o
\* binders with index i is replaced when s <= i - o < s + n, lowered by n
\* when i - o >= s + n, and kept otherwise (no machine arithmetic).
reference_subst(t, o, s, n, arr) ==
    CASE t.tag = "bvar" ->
            IF t.idx - o >= s + n THEN BVar(t.idx - n)
            ELSE IF t.idx - o >= s THEN lift_loose_bvars(arr[t.idx - o - s + 1], o)
            ELSE t
      [] t.tag = "app" ->
            App(reference_subst(t.fn, o, s, n, arr), reference_subst(t.arg, o, s, n, arr))
      [] t.tag = "lambda" -> Lambda(reference_subst(t.body, o + 1, s, n, arr))
      [] OTHER -> t

Reverse(sq) == [i \in 1 .. Len(sq) |-> sq[Len(sq) + 1 - i]]

\* C9: instantiate(t, s, n, subst) is the reference substitution; it is t
\* itself when t's loose-bvar range is <= s or n = 0; and for s = 0 the
\* generic rewrite gives what instantiate (easy path first) returned.
C9_InstantiateIsReference ==
    op = "instantiate" =>
        /\ result = reference_subst(term_in, 0, start_in, Len(subst_in), subst_in)
        /\ (get_loose_bvar_range(term_in) <= start_in \/ Len(subst_in) = 0)
              => result = term_in
        /\ (start_in = 0 /\ Len(subst_in) > 0)
              => result = replace_instantiate(term_in, 0, 0, Len(subst_in), subst_in)

\* C9 witness: under one binder the reference 1 was replaced by the lifted
\* subst[0] and the bound reference 0 was kept.
C9_Witness ==
    /\ op = "instantiate" /\ start_in = 0
    /\ term_in = Lambda(App(BVar(1), BVar(0)))
    /\ subst_in = <<App(BVar(0), a_)>>
    /\ result = Lambda(App(App(BVar(1), a_), BVar(0)))

\* C10: for t with loose-bvar range <= n, instantiate_rev(t, n, subst) is
\* instantiate(t, 0, n, reverse(subst)); with subst = [a, b] instantiate maps
\* bvar(0) to a and bvar(1) to b, instantiate_rev maps them to b and a.
C10_ReversalLaw ==
    /\ (op = "instantiate_rev" /\ get_loose_bvar_range(term_in) <= Len(subst_in))
          => result = instantiate(term_in, 0, Len(subst_in), Reverse(subst_in))
    /\ instantiate(BVar(0), 0, 2, <<a_, b_>>) = a_
    /\ instantiate(BVar(1), 0, 2, <<a_, b_>>) = b_
    /\ instantiate_rev(BVar(0), 2, <<a_, b_>>) = b_
    /\ instantiate_rev(BVar(1), 2, <<a_, b_>>) = a_

\* C10 witness: instantiate_rev has mapped bvar(0) to b and bvar(1) to a.
C10_Witness ==
    /\ op = "instantiate_rev"
    /\ term_in = App(BVar(0), BVar(1))
    /\ subst_in = <<a_, b_>>
    /\ result = App(b_, a_)

(***************************************************************************)
(* Properties of the cached universe-parameter substitution.               *)
(***************************************************************************)
\* C8: whatever calls came before in the context, instantiate_type_lparams
\* (d, ls) returns instantiate_lparams(d.type, d.params, ls) and
\* instantiate_value_lparams(d, ls) returns instantiate_lparams(d.value,
\* d.params, ls).
C8_CacheTransparent ==
    /\ cache_call.op = "type" =>
          ret = instantiate_lparams(cache_call.info.type, cache_call.info.lparams,
                                    cache_call.ls)
    /\ cache_call.op = "value" =>
          ret = instantiate_lparams(cache_call.info.value, cache_call.info.lparams,
                                    cache_call.ls)

\* C8 witness: the redefined f was answered from the type cache while the
\* value cache of the context still holds the old declaration of that name.
C8_Witness ==
    /\ cache_call.op = "type" /\ cache_call.hit
    /\ cache_call.info = Decl_f2
    /\ value_cache[cache_call.ctx].size = m_capacity
    /\ value_cache[cache_call.ctx].at[hash("f") % m_capacity].info = Decl_f
    /\ ret = Sort(LSucc(LSucc(LZero)))

(***************************************************************************)
(* Properties of beta reduction.                                           *)
(***************************************************************************)
RECURSIVE nested_lambdas(_)

\* the number of syntactically nested lambdas at the head of f
nested_lambdas(f) == IF f.tag = "lambda" THEN 1 + nested_lambdas(f.body) ELSE 0

RECURSIVE apply_in_order(_, _)

\* f applied to the arguments of ordered, first argument first
apply_in_order(f, ordered) ==
    IF ordered = <<>> THEN f ELSE apply_in_order(App(f, Head(ordered)), Tail(ordered))

RECURSIVE one_at_a_time(_, _, _)

\* m single substitutions, the first argument for the outermost binder and
\* so on, then the unconsumed arguments applied in their order
one_at_a_time(f, ordered, m) ==
    IF m = 0 THEN apply_in_order(f, ordered)
    ELSE one_at_a_time(instantiate(f.body, 0, 1, <<Head(ordered)>>), Tail(ordered), m - 1)

smaller(a, b) == IF a <= b THEN a ELSE b

\* C11: apply_beta(f, |args|, args) is the term got by reducing one argument
\* at a time for the m nested lambdas of f, m <= |args|, and applying the
\* unconsumed arguments in order; it is f with no argument and f applied to
\* all arguments when f is not a lambda.
C11_BetaBulkEquivalence ==
    op = "apply_beta" =>
        /\ result = one_at_a_time(term_in, Reverse(subst_in),
                                  smaller(nested_lambdas(term_in), Len(subst_in)))
        /\ Len(subst_in) = 0 => result = term_in
        /\ term_in.tag # "lambda" => result = apply_in_order(term_in, Reverse(subst_in))

\* C11 witness: two nested lambdas took the first two of three arguments,
\* the first for the outer binder, and the third was applied to the result.
C11_Witness ==
    /\ op = "apply_beta"
    /\ term_in = Lambda(Lambda(App(BVar(1), BVar(0))))
    /\ subst_in = <<BVar(0), a_, Lambda(BVar(0))>>
    /\ result = App(App(Lambda(BVar(0)), a_), BVar(0))

RECURSIVE app_head(_)

app_head(t) == IF t.tag = "app" THEN app_head(t.fn) ELSE t

\* the application head of t is a lambda applied to at least one argument
HeadRedex(t) == t.tag = "app" /\ app_head(t).tag = "lambda"

RECURSIVE references(_, _)

\* the number of references in e to the binder i binders above e
references(e, i) ==
    CASE e.tag = "bvar"   -> IF e.idx = i THEN 1 ELSE 0
      [] e.tag = "app"    -> references(e.fn, i) + references(e.arg, i)
      [] e.tag = "lambda" -> references(e.body, i + 1)
      [] OTHER            -> 0

RECURSIVE Affine(_)

\* every binder of e is referenced at most once
Affine(e) ==
    CASE e.tag = "app"    -> Affine(e.fn) /\ Affine(e.arg)
      [] e.tag = "lambda" -> references(e.body, 0) <= 1 /\ Affine(e.body)
      [] OTHER            -> TRUE

RECURSIVE term_size(_)

term_size(e) ==
    CASE e.tag = "app"    -> 1 + term_size(e.fn) + term_size(e.arg)
      [] e.tag = "lambda" -> 1 + term_size(e.body)
      [] OTHER            -> 1

\* C12 as stated: head_beta_reduce returns on every input term.
C12_Terminates == <>(op = "returned")

\* C12 amended: on a term whose binders are each referenced at most once
\* every apply_beta of head_beta_reduce makes the term smaller and the call
\* returns; whenever head_beta_reduce returns, the head of the result is not
\* a lambda applied to an argument, and ((lambda x. x) a) gives a.
C12_TerminatesWhenAffine ==
    /\ Affine(term_in) => <>(op = "returned")
    /\ [][(Affine(term_in) /\ op' = "head_beta_reduce")
              => term_size(result') < term_size(result)]_vars
    /\ [](op = "returned" => ~HeadRedex(result))
    /\ []((op = "returned" /\ term_in = App(Lambda(BVar(0)), a_)) => result = a_)

\* C12 witness: (lambda x. x b)(lambda y. y) was reduced in two steps to b.
C12_Witness ==
    /\ op = "returned"
    /\ term_in = App(Lambda(App(BVar(0), b_)), Lambda(BVar(0)))
    /\ result = b_

(***************************************************************************)
(* Further properties of the constraint environment.                      *)
(***************************************************************************)
known(dist, a, b) == dist[a][b] # uninit

\* dist is transitively closed
Closed(dist) ==
    \A a \in DOMAIN dist, b \in DOMAIN dist, c \in DOMAIN dist :
        (known(dist, a, b) /\ known(dist, b, c))
            => (known(dist, a, c) /\ dist[a][c] >= dist[a][b] + dist[b][c])

ZeroDiagonal(dist) == \A a \in DOMAIN dist : dist[a][a] = 0

\* C13: from a transitively closed matrix with zero diagonal, one successful
\* add_constraint(v1, v2, d) with v1 # v2 leaves the matrix transitively
\* closed.
C13_AddConstraintKeepsClosure ==
    [][(/\ Closed(m_uvar_distances) /\ ZeroDiagonal(m_uvar_distances)
        /\ call'.op = "add_constraint" /\ ncalls' = ncalls + 1
        /\ outcome'.status = "ok" /\ ~assert_failed')
            => Closed(m_uvar_distances')]_vars

\* The three variables declared last.
LastVars(n) == {v \in VarLevels(n) : v.idx >= n - 3}

\* The two declared last, the earlier one first.
VarPairs(n) == {q \in LastVars(n) \X LastVars(n) : q[1].idx = n - 2 /\ q[2].idx = n - 1}

IsGeOffsets == {-1, 0, 2, 3}

\* Levels without max, and lists of them.
MaxFree(n) == LastVars(n) \cup {Lift(v, 2) : v \in LastVars(n)}

MaxFreeLists(n) ==
    {<<q[1], q[2]>> : q \in VarPairs(n)} \cup {<<q[2], q[1]>> : q \in VarPairs(n)}
        \cup {<<Lift(q[1], 2), q[2]>> : q \in VarPairs(n)}

\* Lists with a member that holds a max.
NestedLists(n) ==
    {<<Max(<<q[1], q[2]>>)>> : q \in VarPairs(n)}
        \cup {<<Lift(Max(<<q[1], q[2]>>), 1), q[1]>> : q \in VarPairs(n)}

IsGeLeft(n) == MaxFree(n) \cup {Max(ls) : ls \in MaxFreeLists(n)}

IsGeRight(n) ==
    MaxFree(n) \cup {Max(ls) : ls \in MaxFreeLists(n) \cup NestedLists(n)}
               \cup {Lift(Max(<<q[1], q[2]>>), 1) : q \in VarPairs(n)}

\* Lift offsets and query offsets whose checked subtraction underflows.
Underflows ==
    {p \in {1, 2, IntMax, UIntMax} \X {IntMin, IntMin + 1, -1, 0} : p[2] - p[1] < IntMin}

\* C14 as stated: when k - off underflows, is_ge(lift(L1', off), L2, k) with
\* L2 a variable returns the Boolean false.
C14_UnderflowDecidesFalse ==
    \A l \in IsGeLeft(size(m_uvars)), l2 \in LastVars(size(m_uvars)), p \in Underflows :
        /\ ~is_ge(Lift(l, p[1]), l2, p[2]).exc
        /\ is_ge(Lift(l, p[1]), l2, p[2]).val = FALSE

\* C14 amended: when k - off underflows, is_ge(lift(L1', off), L2, k) with L2
\* a variable fails with "universe overflow": it returns no Boolean and does
\* not wrap around.
C14_UnderflowThrows ==
    \A l \in IsGeLeft(size(m_uvars)), l2 \in LastVars(size(m_uvars)), p \in Underflows :
        is_ge(Lift(l, p[1]), l2, p[2]).exc

\* C14 witness: with u1 >= u0 + 2 recorded, is_ge(lift(u1, 1), u0, INT_MIN)
\* has failed, where wrapping around would have asked for u1 >= u0 + INT_MAX.
C14_Witness ==
    /\ size(m_uvars) >= 2 /\ m_uvar_distances[1][0] = 2
    /\ is_ge(Lift(UVar(1), 1), UVar(0), IntMin).exc
    /\ sub_wraps(IntMin, 1).val = IntMax

RECURSIVE ref_ge(_, _, _, _)

\* The structural recursion of the specification, in unbounded arithmetic.
ref_ge(dist, l1, l2, k) ==
    CASE l2.kind = "Lift" -> ref_ge(dist, l1, l2.of, k + l2.offset)
      [] l2.kind = "Max"  -> \A i \in 1 .. Len(l2.levels) : ref_ge(dist, l1, l2.levels[i], k)
      [] l1.kind = "Lift" -> ref_ge(dist, l1.of, l2, k - l1.offset)
      [] l1.kind = "Max"  -> \E i \in 1 .. Len(l1.levels) : ref_ge(dist, l1.levels[i], l2, k)
      [] OTHER -> /\ dist[l1.idx][l2.idx] # uninit
                  /\ (k < 0 \/ dist[l1.idx][l2.idx] >= k)

\* is_ge(l1, l2, k) is the structural recursion when it does not fail
IsStructural(l1, l2, k) ==
    \A r \in {is_ge(l1, l2, k)} : ~r.exc => (r.val = ref_ge(m_uvar_distances, l1, l2, k))

\* is_ge(max(A), max(B), k): every b in B has some a in A with is_ge(a, b, k)
EveryHasSome(A, B, k) ==
    \A r \in {is_ge(Max(A), Max(B), k)} : ~r.exc =>
        (r.val =
            (\A j \in 1 .. Len(B) : \E i \in 1 .. Len(A) :
                 ref_ge(m_uvar_distances, A[i], B[j], k)))

\* C15 as stated: is_ge is the structural recursion for all levels over
\* declared variables and all k without overflow, and is_ge(max(A), max(B),
\* k) is true iff for every b in B there is some a in A with is_ge(a, b, k).
C15_IsGeStructural ==
    /\ \A l1 \in IsGeLeft(size(m_uvars)), l2 \in IsGeRight(size(m_uvars)), k \in IsGeOffsets :
          IsStructural(l1, l2, k)
    /\ \A A \in MaxFreeLists(size(m_uvars)),
          B \in MaxFreeLists(size(m_uvars)) \cup NestedLists(size(m_uvars)),
          k \in IsGeOffsets : EveryHasSome(A, B, k)

\* C15 amended: is_ge is the structural recursion; is_ge(max(A), max(B), k) is
\* true iff is_ge(max(A), b, k) for every b in B, which is "some a in A with
\* is_ge(a, b, k)" when the members of B hold no max.
C15_IsGeStructuralFlat ==
    /\ \A l1 \in IsGeLeft(size(m_uvars)), l2 \in IsGeRight(size(m_uvars)), k \in IsGeOffsets :
          IsStructural(l1, l2, k)
    /\ \A A \in MaxFreeLists(size(m_uvars)), B \in MaxFreeLists(size(m_uvars)),
          k \in IsGeOffsets : EveryHasSome(A, B, k)

\* C15 witness: u1 and u2 do not bound each other, and max(u1, u2) is found
\* to dominate max(u2, u1), each member by another member.
C15_Witness ==
    /\ size(m_uvars) >= 3 /\ all_succeeded
    /\ m_uvar_distances[1][2] = uninit /\ m_uvar_distances[2][1] = uninit
    /\ is_ge(Max(<<UVar(1), UVar(2)>>), Max(<<UVar(2), UVar(1)>>), 0) = Value(TRUE)

(***************************************************************************)
(* Further properties of the cached universe-parameter substitution.       *)
(***************************************************************************)
AllLevelLists == {<<>>, <<LZero>>, <<LSucc(LZero)>>}

bucket(cache, d) == cache.at[hash(d.name) % m_capacity]

\* is_cached answers exactly when cache holds d, the same object, with ls,
\* and then with the result stored there
ExactLookup(cache) ==
    \A d \in Decls, ls \in AllLevelLists :
        /\ is_cached(cache, d, ls).some = (holding(cache, d, ls) = "same")
        /\ is_cached(cache, d, ls).some => is_cached(cache, d, ls).val = bucket(cache, d).r

\* a call that goes through the cache: levels are given and term has parameters
through_cache(c) ==
    /\ c.op \in {"type", "value"} /\ c.ls # <<>>
    /\ has_param_univ(IF c.op = "type" THEN c.info.type ELSE c.info.value)

\* the cache the call c uses, among the type caches tc and value caches vc
cache_of(c, tc, vc) == IF c.op = "type" THEN tc[c.ctx] ELSE vc[c.ctx]

\* C16: is_cached(d, ls) returns a result iff d's bucket holds the identical
\* declaration object with an equal level list, and misses otherwise (empty
\* table, empty bucket, another object of the same name, other levels); a hit
\* returns the result of the most recent save into the bucket.
C16_LookupExact ==
    /\ [](\A c \in Contexts : ExactLookup(type_cache[c]) /\ ExactLookup(value_cache[c]))
    /\ [](through_cache(cache_call) => (cache_call.hit = (cache_call.before = "same")))
    /\ [][through_cache(cache_call') =>
             IF cache_call'.hit
             THEN /\ ret' = bucket(cache_of(cache_call', type_cache, value_cache),
                                   cache_call'.info).r
                  /\ type_cache' = type_cache /\ value_cache' = value_cache
             ELSE bucket(cache_of(cache_call', type_cache', value_cache'), cache_call'.info)
                      = [info |-> cache_call'.info, ls |-> cache_call'.ls, r |-> ret']]_vars

\* C16 witness: a lookup for another object equal to f in every field missed
\* on the bucket that held a declaration named f, and its result was saved.
C16_Witness ==
    /\ cache_call.op = "type" /\ cache_call.info = Decl_f_copy
    /\ cache_call.before = "object" /\ ~cache_call.hit
    /\ bucket(type_cache[cache_call.ctx], Decl_f_copy).info = Decl_f_copy
    /\ ret = Sort(cache_call.ls[1])

\* every lookup in cache misses
AllMiss(cache) == \A d \in Decls, ls \in AllLevelLists : ~is_cached(cache, d, ls).some

\* C17: clear_instantiate_cache empties the type cache and the value cache
\* of the calling context, and no call made in one context changes the
\* caches of another context.
C17_PerContext ==
    /\ [](cache_call.op = "clear" =>
             AllMiss(type_cache[cache_call.ctx]) /\ AllMiss(value_cache[cache_call.ctx]))
    /\ [][\A c \in Contexts :
             c # cache_call'.ctx =>
                 type_cache'[c] = type_cache[c] /\ value_cache'[c] = value_cache[c]]_vars

\* C17 witness: context 1 has cleared its caches, which had been filled, while
\* both caches of context 2 still hold what context 2 saved.
C17_Witness ==
    /\ cache_call.op = "clear" /\ cache_call.ctx = 1
    /\ type_cache[1].size = 0 /\ value_cache[1].size = 0
    /\ holding(type_cache[2], Decl_f, <<LZero>>) = "same"
    /\ holding(value_cache[2], Decl_h, <<LZero>>) = "same"

(***************************************************************************)
(* Frame, soundness and range of the distance matrix.                      *)
(***************************************************************************)
\* one row and one column per declared variable
Square(uvars, dist) ==
    /\ DOMAIN dist = DOMAIN uvars
    /\ \A a \in DOMAIN dist : DOMAIN dist[a] = DOMAIN uvars

\* C18: define_uvar(n, L), successful or failed, leaves every entry between
\* variables declared before the call as it was, keeps the matrix square
\* over the declared variables and leaves distances[a][w] unknown for the
\* new variable w and every earlier a; so a known off-diagonal bound
\* distances[v1][v2] exists only when v2 was declared before v1.
C18_DefineWritesOwnRow ==
    /\ [][call'.op = "define_uvar" =>
             /\ \A a \in DOMAIN m_uvars, b \in DOMAIN m_uvars :
                    m_uvar_distances'[a][b] = m_uvar_distances[a][b]
             /\ \A w \in DOMAIN m_uvars' \ DOMAIN m_uvars, a \in DOMAIN m_uvars :
                    m_uvar_distances'[a][w] = uninit]_vars
    /\ [](Square(m_uvars, m_uvar_distances))
    /\ [](\A v1 \in Declared, v2 \in Declared :
             (v1 # v2 /\ m_uvar_distances[v1][v2] # uninit) => v2 < v1)

\* C18 witness: the definition of u2 failed after it had written bounds on u1
\* and u0 into the row of u2; the rows of u0 and u1 know no bound on u2.
C18_Witness ==
    /\ call.op = "define_uvar" /\ outcome.status = "overflow"
    /\ size(m_uvars) = 3
    /\ m_uvar_distances[2][1] # uninit /\ m_uvar_distances[1][0] # uninit
    /\ m_uvar_distances[0][2] = uninit /\ m_uvar_distances[1][2] = uninit

\* Largest value an assignment gives a variable.
MaxVal == 4

RECURSIVE eval(_, _)
RECURSIVE eval_max(_, _, _)

\* eval(lift(L, o)) = eval(L) + o, eval(max(S)) = the maximum over S
eval(l, val) ==
    CASE l.kind = "UVar" -> val[l.idx]
      [] l.kind = "Lift" -> eval(l.of, val) + l.offset
      [] l.kind = "Max"  -> eval_max(l.levels, 1, val)

eval_max(ls, i, val) ==
    IF i = Len(ls) THEN eval(ls[i], val)
    ELSE larger(eval(ls[i], val), eval_max(ls, i + 1, val))

\* The variables the queries are about: the three declared last.
Asked == {v.idx : v \in LastVars(size(m_uvars))}

\* The assignments to these variables that satisfy every known entry of
\* the matrix between them (all declared variables while these are three).
Satisfying ==
    {val \in [Asked -> 0 .. MaxVal] :
        \A v1 \in Asked, v2 \in Asked :
            m_uvar_distances[v1][v2] # uninit
                => val[v1] >= val[v2] + m_uvar_distances[v1][v2]}

\* Levels asked about: variables, lifts and maxima over the last variables.
SoundLevels(n) ==
    MaxFree(n) \cup {Max(<<p[1], Lift(p[2], 2)>>) :
                         p \in {q \in LastVars(n) \X LastVars(n) : q[2].idx < q[1].idx}}

\* The queries <<L1, L2, k>> that is_ge answers with true.
Proved ==
    {q \in SoundLevels(size(m_uvars)) \X SoundLevels(size(m_uvars)) \X {-1, 2, 4} :
        holds(q[1], q[2], q[3])}

\* C19: in an environment reached by successful define_uvar calls, for every
\* assignment of naturals to the declared variables that satisfies every
\* known entry, is_ge(L1, L2, k) = true implies eval(L1) >= eval(L2) + k.
C19_IsGeSound ==
    all_succeeded =>
        \A vals \in {Satisfying} : \A q \in Proved : \A val \in vals :
            eval(q[1], val) >= eval(q[2], val) + q[3]

\* C19 witness: u1 >= u0 + 2 and u2 >= u1 + 2 are recorded, the assignment
\* u0 = 0, u1 = 2, u2 = 4 satisfies the matrix, and is_ge answers true for
\* lift(u2, 2) >= max(u1, lift(u0, 2)) + 4, which leaves no slack there.
C19_Witness ==
    /\ all_succeeded /\ size(m_uvars) = 3
    /\ m_uvar_distances[1][0] = 2 /\ m_uvar_distances[2][1] = 2
    /\ [i \in Declared |-> 2 * i] \in Satisfying
    /\ <<Lift(UVar(2), 2), Max(<<UVar(1), Lift(UVar(0), 2)>>), 4>> \in Proved

RECURSIVE variables_of(_)

\* the variables a level mentions
variables_of(l) ==
    CASE l.kind = "UVar" -> {l.idx}
      [] l.kind = "Lift" -> variables_of(l.of)
      [] l.kind = "Max"  -> UNION {variables_of(l.levels[i]) : i \in 1 .. Len(l.levels)}

\* C20: in every state reached by define_uvar calls, successful or failed,
\* every entry is the sentinel uninit or a value in 0 .. INT_MAX - 1, and a
\* bound that a successful define_uvar recorded is not the sentinel.
C20_KnownIsNotSentinel ==
    /\ \A a \in Declared, b \in Declared :
          m_uvar_distances[a][b] = uninit \/ m_uvar_distances[a][b] \in 0 .. IntMax - 1
    /\ (call.op = "define_uvar" /\ outcome.status = "ok") =>
          \A u \in variables_of(defn) : m_uvar_distances[outcome.idx][u] \in 0 .. IntMax - 1

\* C20 witness: u1 >= u0 + INT_MAX - 2 and u2 >= u1 + 1 gave the largest
\* bound, INT_MAX - 1, for u2 over u0.
C20_Witness ==
    /\ size(m_uvars) = 3 /\ call.op = "define_uvar" /\ outcome.status = "ok"
    /\ m_uvar_distances[1][0] = IntMax - 2 /\ m_uvar_distances[2][1] = 1
    /\ m_uvar_distances[2][0] = IntMax - 1

=============================================================================
